---- MODULE Spec2Model ----
(***************************************************************************)
(* A model of ncei_ghcn_data/daily_summaries.py: the DailySummaries        *)
(* wrapper around the NCEI daily-summaries service.                        *)
(*                                                                         *)
(* Python values are modelled as follows.                                  *)
(*   str        a sequence of one-character strings, <<"3","1","0">>;      *)
(*              dictionary keys, exception names and message literals are  *)
(*              kept as TLA+ strings, since the program never looks inside *)
(*              them                                                       *)
(*   dict       a sequence of <<key, value>> pairs with distinct keys, in  *)
(*              insertion order                                            *)
(*   list       a sequence                                                 *)
(*   None, bool, int, float, date, datetime, time                          *)
(*              a record tagged with the Python type name                  *)
(*   a call     [kind |-> "return", value |-> v], or                       *)
(*              [kind |-> "raise", exc |-> class name, arg |-> argument]   *)
(***************************************************************************)
EXTENDS Integers, Sequences, FiniteSets, TLC

VARIABLES
    pc,           \* position of the running call
    start_date,   \* get_daily_summaries / _validate_dates local
    end_date,     \* get_daily_summaries / _validate_dates local
    units,        \* get_daily_summaries parameter
    return_raw,   \* get_daily_summaries parameter
    requests,     \* the URLs handed to requests.get so far, in order
    station_id,   \* get_daily_summaries parameter
    response,     \* _make_api_call local: what requests.get(url).json() gave
    raw_data,     \* get_daily_summaries local: what _make_api_call returned
    data,         \* get_daily_summaries local
    time_string,  \* _convert_time_string parameter
    result,       \* what the call returned
    error,        \* what the call raised
    steps         \* the helper methods entered so far, in order

vars == <<pc, start_date, end_date, station_id, units, return_raw, requests,
          response, raw_data, data, time_string, result, error, steps>>

----------------------------------------------------------------------------
(* Python values *)

None == [type |-> "NoneType"]

True == [type |-> "bool", v |-> TRUE]

False == [type |-> "bool", v |-> FALSE]

PyInt(n) == [type |-> "int", v |-> n]

\* num / 10^scale, with no trailing zero in the fraction
PyFloat(num, scale) == [type |-> "float", num |-> num, scale |-> scale]

PyStr(s) == [type |-> "str", v |-> s]

PyDate(y, m, d) == [type |-> "date", year |-> y, month |-> m, day |-> d]

PyDateTime(y, m, d, hh, mm, ss) ==
    [type |-> "datetime", year |-> y, month |-> m, day |-> d,
     hour |-> hh, minute |-> mm, second |-> ss]

PyList(xs) == [type |-> "list", v |-> xs]

PyDict(items) == [type |-> "dict", v |-> items]

PyTime(hh, mm) == [type |-> "time", hour |-> hh, minute |-> mm]

Return(v) == [kind |-> "return", value |-> v]

Raise(exc, arg) == [kind |-> "raise", exc |-> exc, arg |-> arg]

\* the value of a variable that holds nothing yet
Unset == [kind |-> "unset"]

----------------------------------------------------------------------------
(* str *)

\* The characters that occur in the model, in code point order.
Alphabet ==
    << "\t", "\n", " ", "+", "-", ".", "/",
       "0", "1", "2", "3", "4", "5", "6", "7", "8", "9",
       ":", "T", "W", "a", "b", "c", "x" >>

Ord(c) == CHOOSE i \in 1..Len(Alphabet) : Alphabet[i] = c

Digits == <<"0", "1", "2", "3", "4", "5", "6", "7", "8", "9">>

IsDigit(c) == \E d \in 1..Len(Digits) : Digits[d] = c

DigitVal(c) == (CHOOSE d \in 1..Len(Digits) : Digits[d] = c) - 1

Whitespace == {" ", "\t", "\n"}

Min(a, b) == IF a < b THEN a ELSE b

Max(a, b) == IF a > b THEN a ELSE b

\* s[:n]
SliceTo(s, n) == SubSeq(s, 1, Min(n, Len(s)))

\* s[-n:]
SliceLast(s, n) == SubSeq(s, Max(1, Len(s) - n + 1), Len(s))

RECURSIVE LStrip(_)
LStrip(s) ==
    IF s # <<>> /\ Head(s) \in Whitespace THEN LStrip(Tail(s)) ELSE s

RECURSIVE RStrip(_)
RStrip(s) ==
    IF s # <<>> /\ s[Len(s)] \in Whitespace
    THEN RStrip(SubSeq(s, 1, Len(s) - 1))
    ELSE s

\* str.strip()
Strip(s) == RStrip(LStrip(s))

\* a < b on str: lexicographic by code point
RECURSIVE StrLess(_, _)
StrLess(a, b) ==
    IF b = <<>> THEN FALSE
    ELSE IF a = <<>> THEN TRUE
    ELSE IF Head(a) # Head(b) THEN Ord(Head(a)) < Ord(Head(b))
    ELSE StrLess(Tail(a), Tail(b))

\* the number a sequence of decimal digits denotes
RECURSIVE DecVal(_)
DecVal(ds) ==
    IF ds = <<>> THEN 0
    ELSE 10 * DecVal(SubSeq(ds, 1, Len(ds) - 1)) + DigitVal(ds[Len(ds)])

AllDigits(s) == \A i \in 1..Len(s) : IsDigit(s[i])

\* n formatted as decimal digits, zero-padded to width w (format spec 0wd)
RECURSIVE ZeroPad(_, _)
ZeroPad(n, w) ==
    IF w <= 1 /\ n < 10 THEN <<Digits[n + 1]>>
    ELSE ZeroPad(n \div 10, w - 1) \o <<Digits[(n % 10) + 1]>>

\* the elements of seq whose position is in S, in order
RECURSIVE Restrict(_, _)
Restrict(seq, S) ==
    IF seq = <<>> THEN <<>>
    ELSE LET init == Restrict(SubSeq(seq, 1, Len(seq) - 1), S)
         IN  IF Len(seq) \in S THEN Append(init, seq[Len(seq)]) ELSE init

----------------------------------------------------------------------------
(* The conversions _coerce_types and _validate_dates call *)

\* The text after an optional sign; <<>> when nothing follows.
Unsigned(t) == IF t # <<>> /\ Head(t) \in {"+", "-"} THEN Tail(t) ELSE t

Sign(t) == IF t # <<>> /\ Head(t) = "-" THEN -1 ELSE 1

\* int(v) for a str v: surrounding whitespace and one sign are accepted, then
\* decimal digits only. (Underscores between digits, which int also accepts,
\* are not in the Alphabet.)
py_int(v) ==
    LET body == Unsigned(Strip(v))
    IN  IF body # <<>> /\ AllDigits(body)
        THEN Return(PyInt(Sign(Strip(v)) * DecVal(body)))
        ELSE Raise("ValueError", "invalid literal for int()")

\* the fraction digits without trailing zeros
RECURSIVE TrimZeros(_)
TrimZeros(ds) ==
    IF ds # <<>> /\ ds[Len(ds)] = "0"
    THEN TrimZeros(SubSeq(ds, 1, Len(ds) - 1))
    ELSE ds

\* the position of the first "." of t, or Len(t) + 1
DotAt(t) ==
    IF \E i \in 1..Len(t) : t[i] = "."
    THEN CHOOSE i \in 1..Len(t) : t[i] = "." /\ \A j \in 1..(i - 1) : t[j] # "."
    ELSE Len(t) + 1

\* float(v) for a str v: whitespace, a sign, digits with at most one point and
\* at least one digit. (Exponents, "inf" and "nan" are not in the Alphabet.)
py_float(v) ==
    LET body == Unsigned(Strip(v))
        dot  == DotAt(body)
        ip   == SubSeq(body, 1, dot - 1)
        fp   == SubSeq(body, dot + 1, Len(body))
        frac == TrimZeros(fp)
    IN  IF AllDigits(ip) /\ AllDigits(fp) /\ Len(ip) + Len(fp) > 0
        THEN Return(PyFloat(Sign(Strip(v)) * DecVal(ip \o frac), Len(frac)))
        ELSE Raise("ValueError", "could not convert string to float")

IsLeap(y) == y % 4 = 0 /\ (y % 100 # 0 \/ y % 400 = 0)

DaysInMonth(y, m) ==
    IF m = 2 THEN (IF IsLeap(y) THEN 29 ELSE 28)
    ELSE IF m \in {4, 6, 9, 11} THEN 30
    ELSE 31

\* datetime.date.fromisoformat(v), for the YYYY-MM-DD form. (The other ISO
\* 8601 forms newer interpreters also accept, YYYYMMDD and week dates, are not
\* among the values drawn.)
date_fromisoformat(v) ==
    IF /\ Len(v) = 10
       /\ v[5] = "-"
       /\ v[8] = "-"
       /\ AllDigits(SubSeq(v, 1, 4) \o SubSeq(v, 6, 7) \o SubSeq(v, 9, 10))
    THEN LET y == DecVal(SubSeq(v, 1, 4))
             m == DecVal(SubSeq(v, 6, 7))
             d == DecVal(SubSeq(v, 9, 10))
         IN  IF y >= 1 /\ m \in 1..12 /\ d >= 1 /\ d <= DaysInMonth(y, m)
             THEN Return(PyDate(y, m, d))
             ELSE Raise("ValueError", "date value out of range")
    ELSE Raise("ValueError", "Invalid isoformat string")

\* datetime.time(hour=hour, minute=minute)
datetime_time(hour, minute) ==
    IF hour \notin 0..23 THEN Raise("ValueError", "hour must be in 0..23")
    ELSE IF minute \notin 0..59 THEN Raise("ValueError", "minute must be in 0..59")
    ELSE Return(PyTime(hour, minute))

\* date.isoformat() and datetime.isoformat() (microsecond = 0, no tzinfo)
isoformat(d) ==
    LET day == ZeroPad(d.year, 4) \o <<"-">> \o ZeroPad(d.month, 2)
               \o <<"-">> \o ZeroPad(d.day, 2)
    IN  IF d.type = "datetime"
        THEN day \o <<"T">> \o ZeroPad(d.hour, 2) \o <<":">>
             \o ZeroPad(d.minute, 2) \o <<":">> \o ZeroPad(d.second, 2)
        ELSE day

\* isinstance(x, datetime.date): datetime.datetime is a subclass of
\* datetime.date
IsInstanceDate(x) == x.type \in {"date", "datetime"}

IsInstanceDateTime(x) == x.type = "datetime"

IsInstanceStr(x) == x.type = "str"

----------------------------------------------------------------------------
(* dict *)

Keys(d) == {d[i][1] : i \in 1..Len(d)}

Has(d, k) == k \in Keys(d)

Get(d, k) == d[CHOOSE i \in 1..Len(d) : d[i][1] = k][2]

\* d[k] = v
DictSet(d, k, v) ==
    IF Has(d, k)
    THEN [i \in 1..Len(d) |-> IF d[i][1] = k THEN <<k, v>> ELSE d[i]]
    ELSE Append(d, <<k, v>>)

----------------------------------------------------------------------------
(* The schema *)

\* class DailySummary: <<field, annotation.__name__, default>> in declaration
\* order
DailySummary ==
    << <<"date", "date", None>>,
       <<"station", "str", None>>,
       <<"avg_temp", "int", None>>,
       <<"min_temp", "int", None>>,
       <<"max_temp", "int", None>>,
       <<"precipitation", "float", None>>,
       <<"snowfall", "float", None>>,
       <<"snow_depth", "float", None>>,
       <<"cloudiness_midnight_to_midnight", "float", None>>,
       <<"cloudiness_sunrise_to_sunset", "float", None>>,
       <<"percent_possible_sunshine", "int", None>>,
       <<"total_sunshine", "int", None>>,
       <<"frozen_ground_layer", "int", None>>,
       <<"water_equivalent_snow_on_ground", "float", None>>,
       <<"fog", "bool", False>>,
       <<"heavy_fog", "bool", False>>,
       <<"thunder", "bool", False>>,
       <<"sleet", "bool", False>>,
       <<"hail", "bool", False>>,
       <<"glaze", "bool", False>>,
       <<"dust", "bool", False>>,
       <<"smoke", "bool", False>>,
       <<"blowing_snow", "bool", False>>,
       <<"high_wind", "bool", False>>,
       <<"mist", "bool", False>>,
       <<"drizzle", "bool", False>>,
       <<"freezing_drizzle", "bool", False>>,
       <<"rain", "bool", False>>,
       <<"freezing_rain", "bool", False>>,
       <<"snow", "bool", False>>,
       <<"other_precipitation", "bool", False>>,
       <<"ground_fog", "bool", False>>,
       <<"ice_fog", "bool", False>>,
       <<"avg_wind", "float", None>>,
       <<"fog_in_area", "bool", False>>,
       <<"thunder_in_area", "bool", False>>,
       <<"rain_or_snow_in_area", "bool", False>>,
       <<"time_fastest_mile_or_fastest_1_minute_wind", "time", None>>,
       <<"peak_gust_time", "time", None>>,
       <<"direction_fastest_1_minute_wind", "int", None>>,
       <<"direction_fastest_2_minute_wind", "int", None>>,
       <<"direction_fastest_5_second_wind", "int", None>>,
       <<"direction_peak_gust", "int", None>>,
       <<"direction_fastest_mile_wind", "int", None>>,
       <<"fastest_1_minute_wind", "float", None>>,
       <<"fastest_2_minute_wind", "float", None>>,
       <<"fastest_5_second_wind", "float", None>>,
       <<"peak_gust", "float", None>>,
       <<"fastest_mile_wind", "float", None>>,
       <<"avg_relative_humidity", "int", None>>,
       <<"min_relative_humidity", "int", None>>,
       <<"max_relative_humidity", "int", None>>,
       <<"avg_sea_level_pressure", "float", None>>,
       <<"avg_station_pressure", "float", None>>,
       <<"avg_dew_point_temperature", "int", None>>,
       <<"avg_wet_bulb_temperature", "int", None>> >>

\* class ConversionEnum: <<member name, member value>>
ConversionEnum ==
    << <<"DATE", "date">>,
       <<"STATION", "station">>,
       <<"TAVG", "avg_temp">>,
       <<"TMIN", "min_temp">>,
       <<"TMAX", "max_temp">>,
       <<"PRCP", "precipitation">>,
       <<"SNOW", "snowfall">>,
       <<"SNWD", "snow_depth">>,
       <<"ACMH", "cloudiness_midnight_to_midnight">>,
       <<"ACSH", "cloudiness_sunrise_to_sunset">>,
       <<"PSUN", "percent_possible_sunshine">>,
       <<"TSUN", "total_sunshine">>,
       <<"FRGT", "frozen_ground_layer">>,
       <<"WESD", "water_equivalent_snow_on_ground">>,
       <<"WT01", "fog">>,
       <<"WT02", "heavy_fog">>,
       <<"WT03", "thunder">>,
       <<"WT04", "sleet">>,
       <<"WT05", "hail">>,
       <<"WT06", "glaze">>,
       <<"WT07", "dust">>,
       <<"WT08", "smoke">>,
       <<"WT09", "blowing_snow">>,
       <<"WT11", "high_wind">>,
       <<"WT13", "mist">>,
       <<"WT14", "drizzle">>,
       <<"WT15", "freezing_drizzle">>,
       <<"WT16", "rain">>,
       <<"WT17", "freezing_rain">>,
       <<"WT18", "snow">>,
       <<"WT19", "other_precipitation">>,
       <<"WT21", "ground_fog">>,
       <<"WT22", "ice_fog">>,
       <<"WV01", "fog_in_area">>,
       <<"WV03", "thunder_in_area">>,
       <<"WV20", "rain_or_snow_in_area">>,
       <<"AWND", "avg_wind">>,
       <<"FMTM", "time_fastest_mile_or_fastest_1_minute_wind">>,
       <<"PGTM", "peak_gust_time">>,
       <<"WDF1", "direction_fastest_1_minute_wind">>,
       <<"WDF2", "direction_fastest_2_minute_wind">>,
       <<"WDF5", "direction_fastest_5_second_wind">>,
       <<"WDFG", "direction_peak_gust">>,
       <<"WDFM", "direction_fastest_mile_wind">>,
       <<"WSF1", "fastest_1_minute_wind">>,
       <<"WSF2", "fastest_2_minute_wind">>,
       <<"WSF5", "fastest_5_second_wind">>,
       <<"WSFG", "peak_gust">>,
       <<"WSFM", "fastest_mile_wind">>,
       <<"RHAV", "avg_relative_humidity">>,
       <<"RHMN", "min_relative_humidity">>,
       <<"RHMX", "max_relative_humidity">>,
       <<"ASLP", "avg_sea_level_pressure">>,
       <<"ASTP", "avg_station_pressure">>,
       <<"ADPT", "avg_dew_point_temperature">>,
       <<"AWBT", "avg_wet_bulb_temperature">> >>


\* DailySummary.__annotations__.keys(), and asdict(DailySummary()).keys()
FieldNames == {DailySummary[i][1] : i \in 1..Len(DailySummary)}

\* ConversionEnum.__members__
Codes == {ConversionEnum[i][1] : i \in 1..Len(ConversionEnum)}

\* ConversionEnum[k].value, for a member name k
EnumValue(k) ==
    ConversionEnum[CHOOSE i \in 1..Len(ConversionEnum) : ConversionEnum[i][1] = k][2]

\* dtype_dict of _coerce_types
dtype_dict(k) == DailySummary[CHOOSE i \in 1..Len(DailySummary) : DailySummary[i][1] = k][2]

\* the zero value of a declared type
ZeroValue(t) ==
    IF t = "bool" THEN False
    ELSE IF t = "int" THEN PyInt(0)
    ELSE IF t = "float" THEN PyFloat(0, 0)
    ELSE IF t = "str" THEN PyStr(<<>>)
    ELSE None

\* A faulty template_dict: every field with a zero value defaults to it.
template_dict_ZeroValues ==
    [i \in 1..Len(DailySummary) |-> <<DailySummary[i][1], ZeroValue(DailySummary[i][2])>>]

\* template_dict of _remap_dictionaries: asdict(DailySummary())
template_dict == [i \in 1..Len(DailySummary) |-> <<DailySummary[i][1], DailySummary[i][3]>>]

----------------------------------------------------------------------------
(* class DailySummaries *)

\* __init__
_base_url == "https://www.ncei.noaa.gov/access/services/data/v1?dataset=daily-summaries"

_format_string == "&format=json"

\* The checks _validate_dates makes on one argument; which is "Start" or "End".
ValidateOne(d, which) ==
    IF IsInstanceDate(d) THEN Return(PyStr(isoformat(d)))
    ELSE IF IsInstanceDateTime(d)
         THEN Return(PyStr(isoformat(PyDate(d.year, d.month, d.day))))
    ELSE IF IsInstanceStr(d)
         THEN IF Len(d.v) # 10
              THEN Raise("ValueError", <<which, " date must be in the form YYYY-MM-DD.">>)
              ELSE Return(d)
    ELSE Raise("TypeError", <<which, " date must be a string or datetime object.">>)

_validate_dates(start, end) ==
    LET s == ValidateOne(start, "Start")
        e == ValidateOne(end, "End")
    IN  IF s.kind = "raise" THEN s
        ELSE IF e.kind = "raise" THEN e
        ELSE IF StrLess(e.value.v, s.value.v)
             THEN Raise("ValueError", <<"Start date must be before end date.">>)
        ELSE Return(<<s.value, e.value>>)

\* The f-string of _construct_request_url, kept as its parts.
_construct_request_url(start, end, station, u) ==
    [base |-> _base_url, startDate |-> start, endDate |-> end,
     stations |-> station, units |-> u, format |-> _format_string]

\* repr of a str: the Alphabet holds no quote and no backslash
ReprStr(x) == <<"'">> \o x.v \o <<"'">>

RECURSIVE ReprItems(_)
ReprItems(items) ==
    IF items = <<>> THEN <<>>
    ELSE LET last == items[Len(items)]
             init == SubSeq(items, 1, Len(items) - 1)
         IN  (IF init = <<>> THEN <<>> ELSE ReprItems(init) \o <<", ">>)
             \o <<"'", last[1], "'", ": ">> \o ReprStr(last[2])

\* str(response) for a dict of str
ReprDict(d) == <<"{">> \o ReprItems(d.v) \o <<"}">>

\* A faulty _make_api_call: the ResponseError does not carry the response.
_make_api_call_NoContent(start, end, station, u, json) ==
    LET u2  == IF u = "" THEN "standard" ELSE u
        url == _construct_request_url(start, end, station, u2)
    IN  << url,
           IF json.type = "dict"
           THEN Raise("ResponseError", <<"API returned the following error: ">>)
           ELSE Return(json) >>

\* _make_api_call, with the value requests.get(url).json() gives as `json`.
\* Returns <<url requested, outcome>>.
_make_api_call(start, end, station, u, json) ==
    LET u2  == IF u = "" THEN "standard" ELSE u
        url == _construct_request_url(start, end, station, u2)
    IN  << url,
           IF json.type = "dict"
           THEN Raise("ResponseError",
                      <<"API returned the following error: ">> \o ReprDict(json))
           ELSE Return(json) >>

\* A faulty ConvertItems: a code that is no member of ConversionEnum is skipped.
RECURSIVE ConvertItems_Skip(_)
ConvertItems_Skip(i) ==
    IF i = <<>> THEN Return(<<>>)
    ELSE LET init == ConvertItems_Skip(SubSeq(i, 1, Len(i) - 1))
             last == i[Len(i)]
         IN  IF last[1] \notin Codes THEN init
             ELSE Return(DictSet(init.value, EnumValue(last[1]), last[2]))

\* {ConversionEnum[k].value: v for k, v in i.items()}
RECURSIVE ConvertItems(_)
ConvertItems(i) ==
    IF i = <<>> THEN Return(<<>>)
    ELSE LET init == ConvertItems(SubSeq(i, 1, Len(i) - 1))
             last == i[Len(i)]
         IN  IF init.kind = "raise" THEN init
             ELSE IF last[1] \notin Codes THEN Raise("KeyError", last[1])
             ELSE Return(DictSet(init.value, EnumValue(last[1]), last[2]))

RECURSIVE _convert_keys(_)
_convert_keys(rows) ==
    IF rows = <<>> THEN Return(<<>>)
    ELSE LET init == _convert_keys(SubSeq(rows, 1, Len(rows) - 1))
         IN  IF init.kind = "raise" THEN init
             ELSE LET c == ConvertItems(rows[Len(rows)])
                  IN  IF c.kind = "raise" THEN c
                      ELSE Return(Append(init.value, c.value))

\* A faulty _convert_time_string: the hour is taken from time_string[:2].
_convert_time_string_HHMM(ts) ==
    LET hour == py_int(SliceTo(ts, 2))
    IN  IF hour.kind = "raise" THEN hour
        ELSE LET minute == py_int(SliceLast(ts, 2))
             IN  IF minute.kind = "raise" THEN minute
                 ELSE datetime_time(hour.value.v, minute.value.v)

_convert_time_string(ts) ==
    LET hour == py_int(SliceTo(ts, 3))
    IN  IF hour.kind = "raise" THEN hour
        ELSE LET minute == py_int(SliceLast(ts, 2))
             IN  IF minute.kind = "raise" THEN minute
                 ELSE datetime_time(hour.value.v, minute.value.v)

\* A faulty CoerceOne: the bool branch compares v == "1" without strip().
CoerceOne_NoStrip(k, v) ==
    IF dtype_dict(k) = "int" THEN py_int(v.v)
    ELSE IF dtype_dict(k) = "float" THEN py_float(v.v)
    ELSE IF dtype_dict(k) = "bool"
         THEN Return(IF v.v = <<"1">> THEN True ELSE False)
    ELSE IF dtype_dict(k) = "date" THEN date_fromisoformat(v.v)
    ELSE IF dtype_dict(k) = "time" THEN _convert_time_string(v.v)
    ELSE Return(v)

\* The branch of _coerce_types for one key and value.
CoerceOne(k, v) ==
    IF dtype_dict(k) = "int" THEN py_int(v.v)
    ELSE IF dtype_dict(k) = "float" THEN py_float(v.v)
    ELSE IF dtype_dict(k) = "bool"
         THEN Return(IF Strip(v.v) = <<"1">> THEN True ELSE False)
    ELSE IF dtype_dict(k) = "date" THEN date_fromisoformat(v.v)
    ELSE IF dtype_dict(k) = "time" THEN _convert_time_string(v.v)
    ELSE Return(v)

\* for k, v in i.items(): i[k] = ...
RECURSIVE CoerceItems(_)
CoerceItems(i) ==
    IF i = <<>> THEN Return(<<>>)
    ELSE LET init == CoerceItems(SubSeq(i, 1, Len(i) - 1))
             last == i[Len(i)]
         IN  IF init.kind = "raise" THEN init
             ELSE LET c == CoerceOne(last[1], last[2])
                  IN  IF c.kind = "raise" THEN c
                      ELSE Return(Append(init.value, <<last[1], c.value>>))

RECURSIVE _coerce_types(_)
_coerce_types(rows) ==
    IF rows = <<>> THEN Return(<<>>)
    ELSE LET init == _coerce_types(SubSeq(rows, 1, Len(rows) - 1))
         IN  IF init.kind = "raise" THEN init
             ELSE LET c == CoerceItems(rows[Len(rows)])
                  IN  IF c.kind = "raise" THEN c
                      ELSE Return(Append(init.value, c.value))

\* A faulty RemapOne: only the keys the row has are copied, no default is
\* filled in.
RemapOne_PresentOnly(i) ==
    Restrict(template_dict, {j \in 1..Len(template_dict) : Has(i, template_dict[j][1])})

\* the truth value of a Python value
Truthy(x) ==
    IF x.type = "NoneType" THEN FALSE
    ELSE IF x.type = "bool" THEN x.v
    ELSE IF x.type = "int" THEN x.v # 0
    ELSE IF x.type = "float" THEN x.num # 0
    ELSE IF x.type = "str" THEN x.v # <<>>
    ELSE TRUE

\* A faulty RemapOne: new_dict[key] = i.get(key) or template_dict[key]
RemapOne_OrDefault(i) ==
    [j \in 1..Len(template_dict) |->
        LET key == template_dict[j][1]
        IN  IF Has(i, key) /\ Truthy(Get(i, key))
            THEN <<key, Get(i, key)>>
            ELSE <<key, template_dict[j][2]>>]

\* The inner loop of _remap_dictionaries for one row i.
RemapOne(i) ==
    [j \in 1..Len(template_dict) |->
        LET key == template_dict[j][1]
        IN  IF Has(i, key) THEN <<key, Get(i, key)>> ELSE <<key, template_dict[j][2]>>]

_remap_dictionaries(rows) == [n \in 1..Len(rows) |-> RemapOne(rows[n])]

\* DailySummary(**i): the instance as a function of its field names
NewDailySummary(i) ==
    IF Keys(i) \subseteq FieldNames
    THEN Return([f \in FieldNames |->
                    IF Has(i, f) THEN Get(i, f) ELSE Get(template_dict, f)])
    ELSE Raise("TypeError", "unexpected keyword argument")

\* [DailySummary(**i) for i in data]
RECURSIVE NewDailySummaries(_)
NewDailySummaries(rows) ==
    IF rows = <<>> THEN Return(<<>>)
    ELSE LET init == NewDailySummaries(SubSeq(rows, 1, Len(rows) - 1))
         IN  IF init.kind = "raise" THEN init
             ELSE LET c == NewDailySummary(rows[Len(rows)])
                  IN  IF c.kind = "raise" THEN c
                      ELSE Return(Append(init.value, c.value))

----------------------------------------------------------------------------
(* The values the calls are made with, and the values the transport gives *)

\* the longest list of rows the transport returns
MaxRows == 2

Chars(y, m, d, sep, w) ==
    ZeroPad(y, 4) \o <<sep>> \o ZeroPad(m, w) \o <<sep>> \o ZeroPad(d, w)

\* the raw value `text` of code `code`
Item(code, text) == <<code, PyStr(text)>>

\* One well-formed value for a code of type int, bool and time, as the service
\* pads them.
PrimaryItems ==
    << Item("TMAX", <<"3", "1", "0">>),
       Item("WT01", <<"1">>),
       Item("PGTM", <<" ", "1", "4", "5", "2">>) >>

\* Further rows: the other types (str, date, float), other spellings, values
\* that do not coerce, and a code the schema does not have.
OtherRows ==
    { << Item("STATION", <<"a", "b", "c">>),
         Item("DATE", <<"2", "0", "2", "0", "-", "0", "6", "-", "0", "1">>),
         Item("PRCP", <<"0", ".", "1", "2">>) >>,
      << Item("PRCP", <<" ", "0", ".", "0", "0">>),
         Item("WV03", <<" ", " ", " ", " ", "1">>),
         Item("FMTM", <<"0", "0", "9", "3", "0">>) >>,
      << Item("TMAX", <<"0">>), Item("WT01", <<" ", "1", " ">>) >>,
      << Item("TMIN", <<" ", " ", "-", "5">>), Item("WT01", <<"0">>) >>,
      << Item("WT01", <<"1", "1">>), Item("WV03", <<>>) >>,
      << Item("TMAX", <<"a", "b", "c">>) >>,
      << Item("DATE", <<"2", "0", "2", "0", "-", "6", "-", "1">>) >>,
      << Item("PGTM", <<"1", "2", "3", "0">>) >>,
      << Item("XXXX", <<"1">>) >>,
      << Item("TMAX", <<"3", "1", "0">>), Item("XXXX", <<"a", "b", "c">>),
         Item("WT01", <<"1">>) >> }

\* The raw rows: every subset of the primary items, and the other rows.
RawRows ==
    {Restrict(PrimaryItems, S) : S \in SUBSET (1..Len(PrimaryItems))} \cup OtherRows

RECURSIVE SeqsUpTo(_, _)
SeqsUpTo(S, n) ==
    IF n = 0 THEN {<<>>}
    ELSE LET shorter == SeqsUpTo(S, n - 1)
         IN  shorter \cup {Append(q, x) : q \in shorter, x \in S}

\* The error envelopes: JSON objects
Envelopes ==
    { PyDict(<<>>),
      PyDict(<< <<"errorMessage", PyStr(<<"a", "b", "c">>)>>,
                <<"errorCode", PyStr(<<"4", "0", "0">>)>> >>) }

\* What requests.get(url).json() may give: a JSON array of rows, or a JSON object
Responses == {PyList(rows) : rows \in SeqsUpTo(RawRows, MaxRows)} \cup Envelopes

May2020 == PyStr(Chars(2020, 5, 1, "-", 2))

June2020 == PyStr(Chars(2020, 6, 1, "-", 2))

\* <<start_date, end_date>> of the calls of get_daily_summaries
DateArgs ==
    { <<May2020, June2020>>, <<PyDate(2020, 6, 1), June2020>>, <<June2020, May2020>> }

\* "standard" or "metric"; empty selects the default
UnitsArgs == {"standard", ""}

StationArgs == {"USW00024233"}

----------------------------------------------------------------------------
(* get_daily_summaries, one action per statement; pc names the line about   *)
(* to run.                                                                  *)

Init ==
    /\ pc = "line179"
    /\ \E args \in DateArgs : start_date = args[1] /\ end_date = args[2]
    /\ station_id \in StationArgs
    /\ units \in UnitsArgs
    /\ return_raw \in BOOLEAN
    /\ requests = <<>>
    /\ response = Unset
    /\ raw_data = Unset
    /\ data = Unset
    /\ time_string = Unset
    /\ result = Unset
    /\ error = Unset
    /\ steps = <<>>

\* start_date, end_date = self._validate_dates(start_date, end_date)
ValidateDates ==
    /\ pc = "line179"
    /\ steps' = Append(steps, "_validate_dates")
    /\ LET r == _validate_dates(start_date, end_date)
       IN  IF r.kind = "raise"
           THEN /\ pc' = "raised"
                /\ error' = r
                /\ UNCHANGED <<start_date, end_date>>
           ELSE /\ pc' = "line181"
                /\ start_date' = r.value[1]
                /\ end_date' = r.value[2]
                /\ UNCHANGED error
    /\ UNCHANGED <<station_id, units, return_raw, requests, response,
                   raw_data, data, time_string, result>>

\* A faulty MakeApiCall: an error envelope is answered by one more request.
MakeApiCall_Retry ==
    /\ pc = "line181"
    /\ steps' = Append(steps, "_make_api_call")
    /\ \E first \in Responses, json \in Responses :
          LET r    == _make_api_call(start_date, end_date, station_id, units, json)
              sent == Append(requests, r[1])
          IN  /\ requests' = IF first.type = "dict" THEN Append(sent, r[1]) ELSE sent
              /\ first.type # "dict" => json = first
              /\ response' = json
              /\ IF r[2].kind = "raise"
                 THEN /\ pc' = "raised"
                      /\ error' = r[2]
                      /\ UNCHANGED raw_data
                 ELSE /\ pc' = "line183"
                      /\ raw_data' = r[2].value
                      /\ UNCHANGED error
    /\ UNCHANGED <<start_date, end_date, station_id, units, return_raw, data,
                   time_string, result>>

\* raw_data = self._make_api_call(start_date, end_date, station_id, units)
MakeApiCall ==
    /\ pc = "line181"
    /\ steps' = Append(steps, "_make_api_call")
    /\ \E json \in Responses :
          LET r == _make_api_call(start_date, end_date, station_id, units, json)
          IN  /\ requests' = Append(requests, r[1])
              /\ response' = json
              /\ IF r[2].kind = "raise"
                 THEN /\ pc' = "raised"
                      /\ error' = r[2]
                      /\ UNCHANGED raw_data
                 ELSE /\ pc' = "line183"
                      /\ raw_data' = r[2].value
                      /\ UNCHANGED error
    /\ UNCHANGED <<start_date, end_date, station_id, units, return_raw, data,
                   time_string, result>>

\* if return_raw: return raw_data
ReturnRaw ==
    /\ pc = "line183"
    /\ return_raw
    /\ pc' = "returned"
    /\ result' = raw_data
    /\ UNCHANGED <<start_date, end_date, station_id, units, return_raw,
                   requests, response, raw_data, data, time_string, error,
                   steps>>

\* A faulty ConvertKeys: return_raw is not looked at before the translation.
ConvertKeys_Always ==
    /\ pc = "line183"
    /\ steps' = Append(steps, "_convert_keys")
    /\ LET r == _convert_keys(raw_data.v)
       IN  IF r.kind = "raise"
           THEN pc' = "raised" /\ error' = r /\ UNCHANGED data
           ELSE pc' = "line188" /\ data' = r.value /\ UNCHANGED error
    /\ UNCHANGED <<start_date, end_date, station_id, units, return_raw,
                   requests, response, raw_data, time_string, result>>

\* (return_raw is false) data = self._convert_keys(raw_data)
ConvertKeys ==
    /\ pc = "line183"
    /\ ~return_raw
    /\ steps' = Append(steps, "_convert_keys")
    /\ LET r == _convert_keys(raw_data.v)
       IN  IF r.kind = "raise"
           THEN pc' = "raised" /\ error' = r /\ UNCHANGED data
           ELSE pc' = "line188" /\ data' = r.value /\ UNCHANGED error
    /\ UNCHANGED <<start_date, end_date, station_id, units, return_raw,
                   requests, response, raw_data, time_string, result>>

\* data = self._coerce_types(data)
CoerceTypes ==
    /\ pc = "line188"
    /\ steps' = Append(steps, "_coerce_types")
    /\ LET r == _coerce_types(data)
       IN  IF r.kind = "raise"
           THEN pc' = "raised" /\ error' = r /\ UNCHANGED data
           ELSE pc' = "line190" /\ data' = r.value /\ UNCHANGED error
    /\ UNCHANGED <<start_date, end_date, station_id, units, return_raw,
                   requests, response, raw_data, time_string, result>>

\* data = self._remap_dictionaries(data)
RemapDictionaries ==
    /\ pc = "line190"
    /\ steps' = Append(steps, "_remap_dictionaries")
    /\ data' = _remap_dictionaries(data)
    /\ pc' = "line192"
    /\ UNCHANGED <<start_date, end_date, station_id, units, return_raw,
                   requests, response, raw_data, time_string, result, error>>

\* return [DailySummary(**i) for i in data]
ReturnSummaries ==
    /\ pc = "line192"
    /\ LET r == NewDailySummaries(data)
       IN  IF r.kind = "raise"
           THEN pc' = "raised" /\ error' = r /\ UNCHANGED result
           ELSE pc' = "returned" /\ result' = PyList(r.value) /\ UNCHANGED error
    /\ UNCHANGED <<start_date, end_date, station_id, units, return_raw,
                   requests, response, raw_data, data, time_string, steps>>

Next ==
    \/ ValidateDates
    \/ MakeApiCall
    \/ ReturnRaw
    \/ ConvertKeys
    \/ CoerceTypes
    \/ RemapDictionaries
    \/ ReturnSummaries

Spec == Init /\ [][Next]_vars

----------------------------------------------------------------------------
(* Properties of get_daily_summaries, checked under Spec *)

\* the call has ended
Ended == pc \in {"returned", "raised"}

\* the call returned summaries (return_raw false)
ReturnedSummaries == pc = "returned" /\ ~return_raw

\* the field names of the Field Schema: the values of the code table
SchemaFieldNames == {ConversionEnum[i][2] : i \in 1..Len(ConversionEnum)}

\* the code of field f
CodeOf(f) ==
    ConversionEnum[CHOOSE i \in 1..Len(ConversionEnum) : ConversionEnum[i][2] = f][1]

\* the codes of the weather-type flags
WeatherTypeCodes ==
    { "WT01", "WT02", "WT03", "WT04", "WT05", "WT06", "WT07", "WT08", "WT09",
      "WT11", "WT13", "WT14", "WT15", "WT16", "WT17", "WT18", "WT19", "WT21",
      "WT22", "WV01", "WV03", "WV20" }

BooleanFields == {DailySummary[i][1] : i \in {j \in 1..Len(DailySummary) : DailySummary[j][2] = "bool"}}

\* s is "1" with whitespace around it
IsPaddedOne(s) ==
    \E i \in 1..Len(s) : s[i] = "1" /\ \A j \in 1..Len(s) : j # i => s[j] \in Whitespace

\* some row of the array holds a code the schema does not have
HasUnknownCode(rows) ==
    \E n \in 1..Len(rows) : \E j \in 1..Len(rows[n]) : rows[n][j][1] \notin Codes

\* sub occurs in seq as a contiguous run
ContainsSeq(seq, sub) ==
    \E k \in 0..(Len(seq) - Len(sub)) : SubSeq(seq, k + 1, k + Len(sub)) = sub

\* C1 (completeness): when every code of every raw row is in the schema and
\* every value coerces, the call returns as many records as there were rows,
\* and every record, as normalized and as returned, has exactly the schema's
\* field names as its keys, whichever codes its raw row held. With all codes in
\* the schema the call can fail only in the coercion.
C1_Completeness ==
    /\ SchemaFieldNames = FieldNames
    /\ (~return_raw /\ pc \in {"line192", "returned"}) =>
          /\ Len(data) = Len(raw_data.v)
          /\ \A n \in 1..Len(data) :
                Keys(data[n]) = SchemaFieldNames /\ Len(data[n]) = Len(ConversionEnum)
    /\ ReturnedSummaries =>
          /\ result.type = "list"
          /\ Len(result.v) = Len(raw_data.v)
          /\ \A n \in 1..Len(result.v) : DOMAIN result.v[n] = SchemaFieldNames
    /\ (pc = "raised" /\ raw_data # Unset /\ ~HasUnknownCode(raw_data.v)) =>
          error.exc = "ValueError" /\ steps[Len(steps)] = "_coerce_types"

\* Two rows with different sets of codes, one of them empty, were normalized
\* and returned.
C1_Witness ==
    /\ ReturnedSummaries
    /\ Len(raw_data.v) = 2
    /\ raw_data.v[1] = <<>>
    /\ Len(raw_data.v[2]) = 3

\* C2 (boolean default): the boolean fields are those of the WTxx / WVxx codes,
\* and in every returned record each of them is true when its code is in the
\* raw row with a value that is "1" once surrounding whitespace is trimmed, and
\* false when the code is absent or has any other value.
C2_BooleanDefault ==
    /\ {EnumValue(c) : c \in WeatherTypeCodes} = BooleanFields
    /\ ReturnedSummaries =>
          \A n \in 1..Len(result.v) : \A c \in WeatherTypeCodes :
              LET row == raw_data.v[n]
              IN  result.v[n][EnumValue(c)] =
                     IF Has(row, c) /\ IsPaddedOne(Get(row, c).v) THEN True ELSE False

\* A returned record has a flag true from a padded "1", one false from another
\* value, and one false from an absent code.
C2_Witness ==
    /\ ReturnedSummaries
    /\ \E n \in 1..Len(result.v) :
          LET row == raw_data.v[n]
          IN  /\ Has(row, "WT01") /\ Get(row, "WT01").v = <<" ", "1", " ">>
              /\ result.v[n]["fog"] = True
              /\ ~Has(row, "WV03") /\ result.v[n]["thunder_in_area"] = False
    /\ \E n \in 1..Len(result.v) :
          LET row == raw_data.v[n]
          IN  /\ Has(row, "WT01") /\ Get(row, "WT01").v = <<"1", "1">>
              /\ result.v[n]["fog"] = False

\* C3 (absence marker): in every returned record a non-boolean field whose code
\* the raw row does not hold is None, and one whose code it holds is not None;
\* None is not 0, not the empty string and not False.
C3_AbsenceMarker ==
    /\ None \notin {PyInt(0), PyFloat(0, 0), PyStr(<<>>), False}
    /\ ReturnedSummaries =>
          \A n \in 1..Len(result.v) : \A f \in FieldNames \ BooleanFields :
              (result.v[n][f] = None) <=> ~Has(raw_data.v[n], CodeOf(f))

\* A returned record keeps a present integer 0 and has None for an absent
\* integer, real, date, time and text field.
C3_Witness ==
    /\ ReturnedSummaries
    /\ \E n \in 1..Len(result.v) :
          /\ result.v[n]["max_temp"] = PyInt(0)
          /\ \A f \in {"min_temp", "precipitation", "date", "peak_gust_time", "station"} :
                result.v[n][f] = None

\* The class the lookup ConversionEnum[k] raises for a name that is no member:
\* the code's error of kind UnknownFieldError.
UnknownFieldError == "KeyError"

\* C4 (unknown code rejection): once the fetched array holds a row with a code
\* that is not in the schema and return_raw is false, the call returns nothing
\* and gets no further than the translation; when it has ended it has raised
\* UnknownFieldError for the first such code, whatever the other rows hold.
C4_UnknownCodeRejected ==
    (raw_data # Unset /\ ~return_raw /\ HasUnknownCode(raw_data.v)) =>
        /\ pc \in {"line183", "raised"}
        /\ result = Unset
        /\ data = Unset
        /\ pc = "raised" =>
              /\ error.exc = UnknownFieldError
              /\ error.arg \notin Codes
              /\ \E n \in 1..Len(raw_data.v) : Has(raw_data.v[n], error.arg)

\* The call raised for an unknown code in the second row, after a first row
\* that is valid and not empty.
C4_Witness ==
    /\ pc = "raised"
    /\ error.exc = UnknownFieldError
    /\ Len(raw_data.v) = 2
    /\ Len(raw_data.v[1]) = 3
    /\ ~HasUnknownCode(<<raw_data.v[1]>>)
    /\ _coerce_types(_convert_keys(<<raw_data.v[1]>>).value).kind = "return"
    /\ result = Unset

\* C7 (envelope detection): once the transport has given a JSON object, the call
\* has raised ResponseError with a message that holds every key and every value
\* of the object, for either value of return_raw; nothing is returned and no
\* translation, coercion or normalization step has run.
C7_EnvelopeDetected ==
    (response # Unset /\ response.type = "dict") =>
        /\ pc = "raised"
        /\ error.exc = "ResponseError"
        /\ ContainsSeq(error.arg, <<"{">>)
        /\ \A j \in 1..Len(response.v) :
              /\ ContainsSeq(error.arg, <<response.v[j][1]>>)
              /\ ContainsSeq(error.arg, <<"'">> \o response.v[j][2].v \o <<"'">>)
        /\ result = Unset
        /\ raw_data = Unset
        /\ data = Unset
        /\ steps = <<"_validate_dates", "_make_api_call">>

\* An envelope with two entries was given to a call made with return_raw set.
C7_Witness ==
    /\ pc = "raised"
    /\ return_raw
    /\ response # Unset
    /\ response.type = "dict"
    /\ Len(response.v) = 2

\* the date validation of the call failed
ValidationFailed == pc = "raised" /\ steps = <<"_validate_dates">>

\* C8 as claimed (single request per invocation): every call that has ended
\* has made exactly one GET.
C8_ExactlyOneRequest == Ended => Len(requests) = 1

\* C8 as amended: no call makes two or more GETs; a call that has ended has made
\* exactly one when its date validation succeeded, whatever happened later, and
\* none when its date validation failed; the GET is made in the step right after
\* the date validation, with the validated dates, and before any translation,
\* coercion or normalization.
C8_OneRequestAfterValidation ==
    /\ Len(requests) <= 1
    /\ Ended => (Len(requests) = 1 <=> ~ValidationFailed)
    /\ Ended => (Len(requests) = 0 <=> ValidationFailed)
    /\ Len(requests) = Cardinality({i \in 1..Len(steps) : steps[i] = "_make_api_call"})
    /\ \A i \in 1..Len(steps) :
          /\ steps[i] = "_make_api_call" => i = 2 /\ steps[1] = "_validate_dates"
          /\ steps[i] \in {"_convert_keys", "_coerce_types", "_remap_dictionaries"} =>
                i > 2 /\ steps[2] = "_make_api_call"
    /\ Len(requests) = 1 =>
          /\ requests[1].startDate = start_date
          /\ requests[1].endDate = end_date
          /\ Len(start_date.v) = 10

\* A call that failed in the coercion, after one GET.
C8_Witness ==
    /\ pc = "raised"
    /\ error.exc = "ValueError"
    /\ steps[Len(steps)] = "_coerce_types"
    /\ Len(requests) = 1

\* C9 (return_raw short-circuit): with return_raw set and a JSON array given,
\* the call raises nothing and, when it has returned, has returned exactly the
\* array the transport gave; no translation, coercion or normalization step has
\* run.
C9_ReturnRawShortCircuit ==
    (return_raw /\ response # Unset /\ response.type = "list") =>
        /\ pc \in {"line183", "returned"}
        /\ error = Unset
        /\ data = Unset
        /\ steps = <<"_validate_dates", "_make_api_call">>
        /\ pc = "returned" => result = response

\* The raw array was returned although one row has an unknown code and another
\* a value that does not coerce.
C9_Witness ==
    /\ pc = "returned"
    /\ return_raw
    /\ result = response
    /\ Len(result.v) = 2
    /\ HasUnknownCode(<<result.v[1]>>)
    /\ ~HasUnknownCode(<<result.v[2]>>)
    /\ _coerce_types(_convert_keys(<<result.v[2]>>).value).kind = "raise"

----------------------------------------------------------------------------
(* _convert_time_string alone, on strings of digits *)

\* the longest time string drawn: the width the service pads values to
MaxTimeLen == 5

\* the digits time strings are drawn from: enough for the hours around 23 and
\* the minutes around 59
TimeDigits == {"0", "1", "2", "3", "4", "5", "6", "9"}

DigitStrings == SeqsUpTo(TimeDigits, MaxTimeLen) \ {<<>>}

TimeInit ==
    /\ pc = "line257"
    /\ \E s \in DigitStrings : time_string = PyStr(s)
    /\ start_date = Unset
    /\ end_date = Unset
    /\ station_id = Unset
    /\ units = Unset
    /\ return_raw = FALSE
    /\ requests = <<>>
    /\ response = Unset
    /\ raw_data = Unset
    /\ data = Unset
    /\ result = Unset
    /\ error = Unset
    /\ steps = <<>>

\* return datetime.time(hour=int(time_string[:3]), minute=int(time_string[-2:]))
ConvertTimeString ==
    /\ pc = "line257"
    /\ steps' = Append(steps, "_convert_time_string")
    /\ LET r == _convert_time_string(time_string.v)
       IN  IF r.kind = "raise"
           THEN pc' = "raised" /\ error' = r /\ UNCHANGED result
           ELSE pc' = "returned" /\ result' = r.value /\ UNCHANGED error
    /\ UNCHANGED <<start_date, end_date, station_id, units, return_raw,
                   requests, response, raw_data, data, time_string>>

TimeNext == ConvertTimeString

SpecTime == TimeInit /\ [][TimeNext]_vars

\* The class int() and datetime.time() raise for a value they do not accept:
\* the code's error of kind TypeCoercionError.
TypeCoercionError == "ValueError"

\* the number the first three characters of s denote (all of s when shorter)
HourDigits(s) ==
    IF Len(s) >= 3 THEN 100 * DigitVal(s[1]) + 10 * DigitVal(s[2]) + DigitVal(s[3])
    ELSE IF Len(s) = 2 THEN 10 * DigitVal(s[1]) + DigitVal(s[2])
    ELSE DigitVal(s[1])

\* the number the last two characters of s denote (all of s when shorter)
MinuteDigits(s) ==
    IF Len(s) >= 2 THEN 10 * DigitVal(s[Len(s) - 1]) + DigitVal(s[Len(s)])
    ELSE DigitVal(s[1])

\* C5 (time decoding): for a string s of digits, the decoding returns exactly
\* when the number of the first three characters is in 0..23 and the number of
\* the last two is in 0..59, and then returns that hour and that minute;
\* otherwise it raises TypeCoercionError. A five-character code 0HHMM decodes to
\* hour HH and minute MM.
C5_TimeDecoding ==
    Ended =>
        LET s == time_string.v
            h == HourDigits(s)
            m == MinuteDigits(s)
        IN  /\ pc = "returned" <=> (h \in 0..23 /\ m \in 0..59)
            /\ pc = "returned" => result = PyTime(h, m)
            /\ pc = "raised" => error.exc = TypeCoercionError
            /\ (Len(s) = 5 /\ s[1] = "0") =>
                  LET hh == 10 * DigitVal(s[2]) + DigitVal(s[3])
                      mm == 10 * DigitVal(s[4]) + DigitVal(s[5])
                  IN  IF hh <= 23 /\ mm <= 59
                      THEN pc = "returned" /\ result = PyTime(hh, mm)
                      ELSE pc = "raised"

\* The code 02359 was decoded to 23:59.
C5_Witness ==
    /\ pc = "returned"
    /\ time_string = PyStr(<<"0", "2", "3", "5", "9">>)
    /\ result = PyTime(23, 59)

----------------------------------------------------------------------------
(* _validate_dates alone *)

\* the days the date arguments are drawn from
Days == {PyDate(y, m, d) : y \in {2020}, m \in {5, 6, 12}, d \in {1, 30}}

\* the values the date arguments are drawn from: dates, datetimes, strings in
\* the form YYYY-MM-DD, strings without the zero padding, and values that are
\* neither date nor str
DateValues ==
    Days
    \cup {PyDateTime(x.year, x.month, x.day, hh, 0, 0) : x \in Days, hh \in {0, 12}}
    \cup {PyStr(Chars(x.year, x.month, x.day, "-", 2)) : x \in Days}
    \cup {PyStr(Chars(x.year, x.month, x.day, "-", 1)) : x \in Days}
    \cup {PyInt(20200601), None}

DatesInit ==
    /\ pc = "line213"
    /\ start_date \in DateValues
    /\ end_date \in DateValues
    /\ station_id = Unset
    /\ units = Unset
    /\ return_raw = FALSE
    /\ requests = <<>>
    /\ response = Unset
    /\ raw_data = Unset
    /\ data = Unset
    /\ time_string = Unset
    /\ result = Unset
    /\ error = Unset
    /\ steps = <<>>

\* the body of _validate_dates, on the arguments start_date and end_date
CallValidateDates ==
    /\ pc = "line213"
    /\ steps' = Append(steps, "_validate_dates")
    /\ LET r == _validate_dates(start_date, end_date)
       IN  IF r.kind = "raise"
           THEN pc' = "raised" /\ error' = r /\ UNCHANGED result
           ELSE pc' = "returned" /\ result' = r.value /\ UNCHANGED error
    /\ UNCHANGED <<start_date, end_date, station_id, units, return_raw,
                   requests, response, raw_data, data, time_string>>

DatesNext == CallValidateDates

SpecDates == DatesInit /\ [][DatesNext]_vars

\* The class _validate_dates raises for a malformed or out-of-order date: the
\* code's error of kind ValidationError.
ValidationError == "ValueError"

\* x is a date (a datetime is one) or a string
IsDateOrStr(x) == x.type \in {"date", "datetime", "str"}

\* x is a string whose length is not 10
IsBadLength(x) == x.type = "str" /\ Len(x.v) # 10

\* The ISO date string the argument x stands for: a string as it is, a date or
\* datetime as the YYYY-MM-DD of its day.
NormalDate(x) ==
    IF x.type = "str" THEN x.v ELSE Chars(x.year, x.month, x.day, "-", 2)

\* s has the form YYYY-MM-DD
IsIsoDate(s) ==
    /\ Len(s) = 10
    /\ \A i \in 1..10 : IF i \in {5, 8} THEN s[i] = "-" ELSE IsDigit(s[i])

\* C6 (date validation): a string argument whose length is not 10 makes the call
\* fail with ValidationError; so does a start date that is greater than the end
\* date; an argument that is neither a date nor a string makes it fail with a
\* TypeError (where one argument has the wrong type and the other the wrong
\* length, either error is accepted); in every other case the call returns the
\* two dates as YYYY-MM-DD strings of 10 characters with start <= end, equal
\* dates being accepted.
C6_DateValidation ==
    Ended =>
        LET s == start_date
            e == end_date
        IN  IF ~IsDateOrStr(s) \/ ~IsDateOrStr(e)
            THEN /\ pc = "raised"
                 /\ \/ error.exc = "TypeError"
                    \/ error.exc = ValidationError /\ (IsBadLength(s) \/ IsBadLength(e))
            ELSE IF IsBadLength(s) \/ IsBadLength(e)
            THEN pc = "raised" /\ error.exc = ValidationError
            ELSE IF StrLess(NormalDate(e), NormalDate(s))
            THEN pc = "raised" /\ error.exc = ValidationError
            ELSE /\ pc = "returned"
                 /\ result = <<PyStr(NormalDate(s)), PyStr(NormalDate(e))>>
                 /\ IsIsoDate(result[1].v)
                 /\ IsIsoDate(result[2].v)
                 /\ ~StrLess(result[2].v, result[1].v)

----------------------------------------------------------------------------
(* _remap_dictionaries alone, applied again to its own output *)

\* the longest list of records normalized
MaxNormRows == 2

\* how many times the normalization is applied in a row
MaxPasses == 2

\* Typed values of a partial record; a present key may hold None, as every
\* normalized record does.
NormItems ==
    << <<"max_temp", PyInt(0)>>, <<"fog", False>>, <<"snowfall", None>> >>

\* a value of declared type t that is not the default of any field
SampleValue(t) ==
    IF t = "bool" THEN True
    ELSE IF t = "int" THEN PyInt(310)
    ELSE IF t = "float" THEN PyFloat(0, 0)
    ELSE IF t = "date" THEN PyDate(2020, 6, 1)
    ELSE IF t = "time" THEN PyTime(14, 52)
    ELSE PyStr(<<>>)

\* the record with every field: the items of p, and a sample value elsewhere
FullRecord(p) ==
    [j \in 1..Len(DailySummary) |->
        LET key == DailySummary[j][1]
        IN  IF Has(p, key) THEN <<key, Get(p, key)>>
            ELSE <<key, SampleValue(DailySummary[j][2])>>]

Reverse(seq) == [j \in 1..Len(seq) |-> seq[Len(seq) + 1 - j]]

PartialRecords == {Restrict(NormItems, S) : S \in SUBSET (1..Len(NormItems))}

\* The records normalized: partial ones, one with a key outside the schema,
\* full ones in declaration order and one in another order.
NormRecords ==
    PartialRecords
    \cup { << <<"elevation", PyInt(310)>>, <<"fog", True>> >> }
    \cup {FullRecord(p) : p \in PartialRecords}
    \cup {Reverse(FullRecord(<<>>))}

NormInit ==
    /\ pc = "line190"
    /\ data \in SeqsUpTo(NormRecords, MaxNormRows)
    /\ result = <<>>
    /\ start_date = Unset
    /\ end_date = Unset
    /\ station_id = Unset
    /\ units = Unset
    /\ return_raw = FALSE
    /\ requests = <<>>
    /\ response = Unset
    /\ raw_data = Unset
    /\ time_string = Unset
    /\ error = Unset
    /\ steps = <<>>

\* _remap_dictionaries on data, and then on what it returned; result holds what
\* each application returned
Normalize ==
    /\ pc = "line190"
    /\ Len(result) < MaxPasses
    /\ steps' = Append(steps, "_remap_dictionaries")
    /\ result' = Append(result, _remap_dictionaries(
                     IF result = <<>> THEN data ELSE result[Len(result)]))
    /\ UNCHANGED <<pc, start_date, end_date, station_id, units, return_raw,
                   requests, response, raw_data, data, time_string, error>>

NormNext == Normalize

SpecNorm == NormInit /\ [][NormNext]_vars

\* the dicts a and b are equal: the same keys with the same values
DictEq(a, b) == Keys(a) = Keys(b) /\ \A k \in Keys(a) : Get(a, k) = Get(b, k)

\* C10 (idempotence of normalization): normalizing what the normalization
\* returned returns the same records again; and a record that has every schema
\* key is returned with the same value for every key, none replaced by a
\* default.
C10_NormalizeIdempotent ==
    /\ \A k \in 2..Len(result) : result[k] = result[k - 1]
    /\ Len(result) >= 1 =>
          /\ Len(result[1]) = Len(data)
          /\ \A n \in 1..Len(data) :
                Keys(data[n]) = FieldNames => DictEq(result[1][n], data[n])

\* A full record holding 0, an empty string and None, and a partial record,
\* were normalized twice.
C10_Witness ==
    /\ Len(result) = 2
    /\ Len(data) = 2
    /\ Keys(data[1]) = FieldNames
    /\ Get(data[1], "max_temp") = PyInt(0)
    /\ Get(data[1], "snowfall") = None
    /\ Get(data[1], "station") = PyStr(<<>>)
    /\ Keys(data[2]) = {"fog"}
    /\ result[2] = result[1]

====
